---- MODULE Spec2Model ----
(***************************************************************************)
(* Bio-MPC controller V10 / V10.1 (src/src/control/mpc-v10.js,             *)
(* src/src/control/mpc-v10-1.js) as a state machine, with the              *)
(* PhysioController of src/src/control/mpc-asymmetric-v7-6.js beside it.   *)
(*                                                                         *)
(* The JavaScript code computes in IEEE doubles.  The model computes in    *)
(* fixed point, with products and quotients truncated toward zero:         *)
(*   heart rate, demand, power, velocity, dead-band   1/1000 (milli)       *)
(*   Kalman / observer covariances P, R               1/1000               *)
(*   Kalman gains K                                   1/1000               *)
(*   model gain (rls.theta, observer gain)            1/100000             *)
(*   time constants tauRise, tauFall                  1/1000 s             *)
(*   noise.value                                      1/100000             *)
(*   integral accumulator                             1/1000               *)
(*   horizon                                          1/10 s               *)
(*   learning rate lr                                 1/1000               *)
(*   cost weights alpha, beta, gamma, momentumPenalty 1/100                *)
(*   overshoot / undershoot penalty                   1/10                 *)
(*   costs                                            1/100                *)
(*   clock (Date.now)                                 seconds              *)
(* Costs are resolved to 1/100, so the optimizer's gradient, and with it   *)
(* the power of a tick, can differ from the doubles' by about a watt.      *)
(*                                                                         *)
(* Specifications: Spec (update and reset calls), SpecReplay (a run, a     *)
(* reset and the same run again), SpecSession (scripted rides of app.js),  *)
(* SpecSupervisor (the supervisor and the cost evaluator called directly), *)
(* SpecDrift (a rising heart-rate trace at constant power), SpecPhysio     *)
(* (the README's verification script of PhysioController), SpecIntegral    *)
(* (a SmartIntegral called directly), SpecApp (the ride controls of        *)
(* src/src/app.js) and SpecBle (src/src/ble/connectable.js with one        *)
(* device and its auto-reconnect loop).                                    *)
(***************************************************************************)
EXTENDS Integers, Sequences, FiniteSets, TLC

VARIABLES
    cfg,        \* construction config: outputMin, outputMax, params.hrMax, params.tauHRRise/Fall
    kalman,     \* AdaptiveKalmanFilter: x, P, R, history
    modeRec,    \* ModeRecognition: currentMode, hysteresisCounter
    integral,   \* SmartIntegral: accumulated, lastError
    obs,        \* DemandObserver: state.demand/hr/dhdt, params.gain/tauRise/tauFall, P diagonal
    sup,        \* BioSupervisor fields
    rls,        \* MPCv10.rls: theta, tauRise, tauFall
    history,    \* MPCv10.history: modelOutput, hr, power, startTime
    state,      \* MPCv10.state: currentDemand, lastPower, momentum, initialized
    noise,      \* MPCv10.noise.value
    weights,    \* MultiObjectiveBlender.weights
    now,        \* the wall clock read by Date.now()
    physio,     \* a PhysioController (mpc-asymmetric-v7-6.js): its fields
    call,       \* the last call made on the controller, its arguments, result and locals
    env,        \* the caller: number of calls made, the first run's inputs and outputs
    app,        \* app.js: the ride flags of its state object and its two interval timers
    ble         \* a Connectable (ble/connectable.js) and the one device it was given

\* the controller objects
controller == <<cfg, kalman, modeRec, integral, obs, sup, rls, history, state, noise,
                weights, physio>>

vars == <<cfg, kalman, modeRec, integral, obs, sup, rls, history, state, noise,
          weights, physio, now, call, env, app, ble>>

----------------------------------------------------------------------------
(* Fixed-point arithmetic *)

Abs(a) == IF a < 0 THEN -a ELSE a
Min(a, b) == IF a < b THEN a ELSE b
Max(a, b) == IF a > b THEN a ELSE b
Sign(a) == IF a > 0 THEN 1 ELSE IF a < 0 THEN -1 ELSE 0

\* a / b truncated toward zero, b > 0
Div(a, b) == IF a >= 0 THEN a \div b ELSE -((-a) \div b)

\* a * b / c truncated toward zero, b >= 0, c > 0, without a wide product
MulDiv(a, b, c) ==
    LET m == Abs(a)
        q == (m \div c) * b + ((m % c) * b) \div c
    IN  IF a >= 0 THEN q ELSE -q

\* Math.max(lo, Math.min(hi, v))
Clamp(lo, hi, v) == Max(lo, Min(hi, v))

RECURSIVE SumSeq(_)
SumSeq(s) == IF s = <<>> THEN 0 ELSE Head(s) + SumSeq(Tail(s))

\* s.slice(-n)
LastN(s, n) == IF Len(s) <= n THEN s ELSE SubSeq(s, Len(s) - n + 1, Len(s))

\* PushCap with pop() in place of shift(): the entry just pushed is the one dropped
PushCapPop(s, v, cap) ==
    LET t == Append(s, v) IN IF Len(t) > cap THEN SubSeq(t, 1, cap) ELSE t

\* push v, then shift while longer than cap (Array.push / Array.shift)
PushCap(s, v, cap) ==
    LET t == Append(s, v) IN IF Len(t) > cap THEN Tail(t) ELSE t

\* population variance of five samples, in 1/100^2 (centi squared)
Variance5(s) ==
    LET mean == Div(SumSeq(s), 5)
        sq(i) == Div(s[i] - mean, 10) * Div(s[i] - mean, 10)
    IN  Div(sq(1) + sq(2) + sq(3) + sq(4) + sq(5), 5)

\* floor of the square root of n, for 0 <= n < hi * hi
RECURSIVE SqrtIn(_, _, _)
SqrtIn(n, lo, hi) ==
    IF hi - lo <= 1 THEN lo
    ELSE LET mid == (lo + hi) \div 2
         IN  IF mid * mid <= n THEN SqrtIn(n, mid, hi) ELSE SqrtIn(n, lo, mid)

----------------------------------------------------------------------------
(* MODULE 1: AdaptiveKalmanFilter *)

KalmanInit == [x |-> 70000, P |-> 10000, R |-> 3000, history |-> <<>>]

\* R = baseR * (1 + min(sqrt(variance) / 2, 2)) once the window holds 5 samples
KalmanR(k, hist) ==
    IF Len(hist) >= 5
    THEN LET variance == Variance5(hist)
             sd  == IF variance >= 160000 THEN 400 ELSE SqrtIn(variance, 0, 400)
             noiseFactor == Min(Div(sd, 2), 200)
         IN  3000 + 30 * noiseFactor
    ELSE k.R

\* AdaptiveKalmanFilter.update(measuredHR); the return value is the new x
KalmanUpdate(k, measuredHR) ==
    LET hist  == PushCap(k.history, measuredHR, 5)
        R     == KalmanR(k, hist)
        PPred == k.P + 500
        K     == Div(PPred * 1000, PPred + R)
    IN  [x |-> k.x + MulDiv(measuredHR - k.x, K, 1000),
         P |-> MulDiv(PPred, 1000 - K, 1000),
         R |-> R,
         history |-> hist]

\* AdaptiveKalmanFilter.reset(initialHR = 70)
KalmanReset(initialHR) == [x |-> initialHR, P |-> 10000, R |-> 3000, history |-> <<>>]

----------------------------------------------------------------------------
(* MODULE 2: ModeRecognition *)

Modes == {"STEADY", "RAMP", "RECOVERY"}

ModeInit == [currentMode |-> "STEADY", hysteresisCounter |-> 0]

\* the classification of one detect call; "NONE" when the call returns early
DetectedMode(m, hrHistory, powerHistory) ==
    IF Len(hrHistory) < 5 THEN "NONE"
    ELSE LET recent == LastN(hrHistory, 5)
             dhdt10 == recent[5] - recent[1]          \* dhdt * 10
             recentPower == LastN(powerHistory, 3)
             powerTrend == IF Len(recentPower) >= 2
                           THEN recentPower[Len(recentPower)] - recentPower[1]
                           ELSE 0
         IN  IF dhdt10 > 12000 /\ powerTrend > 5000 THEN "RAMP"
             ELSE IF dhdt10 < -10000 THEN "RECOVERY"
             ELSE IF Abs(dhdt10) < 5000 THEN "STEADY"
             ELSE m.currentMode

\* Hysteresis with hysteresisThreshold 2 in place of 3
HysteresisEager(m, detectedMode) ==
    IF detectedMode = "NONE" THEN m
    ELSE IF detectedMode # m.currentMode
    THEN IF m.hysteresisCounter + 1 >= 2
         THEN [currentMode |-> detectedMode, hysteresisCounter |-> 0]
         ELSE [m EXCEPT !.hysteresisCounter = @ + 1]
    ELSE [m EXCEPT !.hysteresisCounter = 0]

\* the hysteresis step of ModeRecognition.detect on a classification
Hysteresis(m, detectedMode) ==
    IF detectedMode = "NONE" THEN m
    ELSE IF detectedMode # m.currentMode
    THEN IF m.hysteresisCounter + 1 >= 3
         THEN [currentMode |-> detectedMode, hysteresisCounter |-> 0]
         ELSE [m EXCEPT !.hysteresisCounter = @ + 1]
    ELSE [m EXCEPT !.hysteresisCounter = 0]

\* ModeRecognition.detect(hrHistory, powerHistory): the recognizer afterwards
Detect(m, hrHistory, powerHistory) ==
    Hysteresis(m, DetectedMode(m, hrHistory, powerHistory))

----------------------------------------------------------------------------
(* MODULE 3: SmartIntegral *)

IntegralInit == [accumulated |-> 0, lastError |-> 0]

\* the accumulator limit with its lower side left open
ClampAccumUpper(v) == Min(150000, v)

\* Math.max(-this.maxAccum / this.Ki, Math.min(this.maxAccum / this.Ki, v)):
\* Ki = 0.1, maxAccum = 15, so maxAccum / Ki = 150
ClampAccum(v) == Clamp(-150000, 150000, v)

\* IntegralUpdate without the atPowerLimit test of its first branch
IntegralUpdateNoLimit(g, error, mode, atPowerLimit) ==
    IF mode # "STEADY"
    THEN [integral |-> [accumulated |-> Div(g.accumulated * 5, 10), lastError |-> error],
          adjust |-> 0]
    ELSE IF Abs(error) > 2500
    THEN LET acc == Div(g.accumulated * 8, 10)
         IN  [integral |-> [accumulated |-> acc, lastError |-> error],
              adjust |-> Div(acc, 10)]
    ELSE LET decayed == IF Sign(error) * Sign(g.lastError) < 0
                        THEN Div(g.accumulated * 3, 10) ELSE g.accumulated
             weighted == IF error > 0 THEN 3 * error ELSE 2 * error
             acc == ClampAccum(decayed + weighted)
         IN  [integral |-> [accumulated |-> acc, lastError |-> error],
              adjust |-> Div(acc, 10)]

\* SmartIntegral.update(error, mode, atPowerLimit): [integral afterwards, returned adjustment]
IntegralUpdate(g, error, mode, atPowerLimit) ==
    IF mode # "STEADY" \/ atPowerLimit
    THEN [integral |-> [accumulated |-> Div(g.accumulated * 5, 10), lastError |-> error],
          adjust |-> 0]
    ELSE IF Abs(error) > 2500
    THEN LET acc == Div(g.accumulated * 8, 10)
         IN  [integral |-> [accumulated |-> acc, lastError |-> error],
              adjust |-> Div(acc, 10)]
    ELSE LET decayed == IF Sign(error) * Sign(g.lastError) < 0
                        THEN Div(g.accumulated * 3, 10) ELSE g.accumulated
             weighted == IF error > 0 THEN 3 * error ELSE 2 * error   \* error * weight * 2.0
             acc == ClampAccum(decayed + weighted)
         IN  [integral |-> [accumulated |-> acc, lastError |-> error],
              adjust |-> Div(acc, 10)]

----------------------------------------------------------------------------
(* MODULE 4: DemandObserver *)

\* new DemandObserver(this.params): this.params has no tauRise / tauFall keys,
\* so the observer takes its own defaults 25 and 45
ObserverInit ==
    [demand |-> 70000, hr |-> 70000, dhdt |-> 0,
     gain |-> 45000, tauRise |-> 25000, tauFall |-> 45000,
     P00 |-> 10000, P11 |-> 10000, P22 |-> 2000]

\* (power * gain) + 65
TargetDemand(power, gain) == Div(MulDiv(power, gain, 1000), 100) + 65000

\* one 2-second step of the demand / heart-rate model: <<demand, hr>>
ModelStep(o, demand, hr, power) ==
    LET d   == demand + Div((TargetDemand(power, o.gain) - demand) * 2, 20)
        tau == IF d > hr THEN o.tauRise ELSE o.tauFall
    IN  <<d, hr + Div((d - hr) * 2000, tau)>>

\* DemandObserver.update(measuredHR, power, dt = 2.0)
ObserverUpdate(o, measuredHR, power) ==
    LET targetDemand == TargetDemand(power, o.gain)
        demandPred == o.demand + Div((targetDemand - o.demand) * 2, 20)
        tau == IF demandPred > o.hr THEN o.tauRise ELSE o.tauFall
        hrPred == o.hr + Div((demandPred - o.hr) * 2000, tau)
        dhdtPred == Div(hrPred - o.hr, 2)
        P11 == o.P11 + 500
        innovation == measuredHR - hrPred
        K == Div(P11 * 1000, P11 + 2000)
        Kinn == MulDiv(innovation, K, 1000)
    IN  [o EXCEPT !.demand = Clamp(65000, 195000, demandPred + Div(Kinn * 3, 10)),
                  !.hr = Clamp(60000, 200000, hrPred + Kinn),
                  !.dhdt = Clamp(-5000, 5000, dhdtPred + Div(Kinn, 10)),
                  !.P00 = @ + 500,
                  !.P11 = MulDiv(P11, 1000 - K, 1000),
                  !.P22 = @ + 250]

\* DemandObserver.updateParams({gain, tauRise, tauFall})
ObserverUpdateParams(o, p) ==
    [o EXCEPT !.gain = p.theta, !.tauRise = p.tauRise, !.tauFall = p.tauFall]

\* the loop of DemandObserver.predict: the <<demand, hr>> pairs after 0, 1, ...
\* 2-second steps, until `steps` steps are made
RECURSIVE PredictLoop(_, _, _, _)
PredictLoop(o, traj, power, steps) ==
    IF Len(traj) > steps THEN traj[Len(traj)]
    ELSE LET last == traj[Len(traj)]
         IN  PredictLoop(o, Append(traj, ModelStep(o, last[1], last[2], power)),
                         power, steps)

\* DemandObserver.predict(power, horizon, true).hr; the loop runs while t < horizon
PredictHR(o, power, horizon) ==
    PredictLoop(o, << <<o.demand, o.hr>> >>, power, (horizon + 19) \div 20)[2]

\* DemandObserver.reset(): state and covariance only, params are kept
ObserverReset(o) ==
    [o EXCEPT !.demand = 70000, !.hr = 70000, !.dhdt = 0,
              !.P00 = 10000, !.P11 = 10000, !.P22 = 2000]

----------------------------------------------------------------------------
(* MODULE 5: BioSupervisor *)

Intents == {"TT", "ENDURANCE", "MEDICAL", "TRAINING"}

\* BioSupervisor.getConfigByIntent(intent)
GetConfigByIntent(intent) ==
    CASE intent = "TT" ->
           [alpha |-> 70, beta |-> 20, gamma |-> 10, horizon |-> 500, lr |-> 700,
            maxVel |-> 4000, overshootPenalty |-> 400, undershootPenalty |-> 150,
            momentumPenalty |-> 25, enableIntegral |-> TRUE,
            dbLower |-> 500, dbUpper |-> 200]
      [] intent = "ENDURANCE" ->
           [alpha |-> 40, beta |-> 30, gamma |-> 30, horizon |-> 550, lr |-> 500,
            maxVel |-> 2500, overshootPenalty |-> 250, undershootPenalty |-> 180,
            momentumPenalty |-> 45, enableIntegral |-> TRUE,
            dbLower |-> 1000, dbUpper |-> 400]
      [] intent = "MEDICAL" ->
           [alpha |-> 25, beta |-> 60, gamma |-> 15, horizon |-> 600, lr |-> 400,
            maxVel |-> 2000, overshootPenalty |-> 600, undershootPenalty |-> 100,
            momentumPenalty |-> 50, enableIntegral |-> TRUE,
            dbLower |-> 1200, dbUpper |-> 300]
      [] OTHER ->
           [alpha |-> 55, beta |-> 30, gamma |-> 15, horizon |-> 500, lr |-> 600,
            maxVel |-> 3000, overshootPenalty |-> 300, undershootPenalty |-> 150,
            momentumPenalty |-> 35, enableIntegral |-> TRUE,
            dbLower |-> 800, dbUpper |-> 300]

\* new BioSupervisor() at clock value t; driftOnsetTime null is -1
SupervisorInit(t) ==
    [inferredIntent |-> "TRAINING", sessionStartTime |-> t, sessionDuration |-> 0,
     recentOvershoots |-> 0, recentUndershoots |-> 0, oscillationCount |-> 0,
     avgError |-> 0, lastError |-> 0, lastPower |-> 0,
     driftEstimate |-> 0, driftOnsetTime |-> -1,
     config |-> GetConfigByIntent("TRAINING")]

\* BioSupervisor.inferIntent(targetHR, hrMax, mode, duration) with the session
\* duration (seconds) it has just computed; duration is the caller's older value
InferIntent(targetHR, hrMax, sessionDuration, duration) ==
    LET isLongSession == sessionDuration > 3600
    IN  IF targetHR * 100 > 92 * hrMax THEN "MEDICAL"
        ELSE IF targetHR * 100 > 85 * hrMax /\ ~isLongSession THEN "TT"
        ELSE IF isLongSession \/ (targetHR * 100 < 75 * hrMax /\ duration > 2700)
             THEN "ENDURANCE"
        ELSE "TRAINING"

\* BioSupervisor.getAdaptiveDeadband(error, variance) on the preset config c
GetAdaptiveDeadband(c, error, variance) ==
    IF Abs(error) < 1500 /\ variance < 15000 THEN [lower |-> 1200, upper |-> 400]
    ELSE IF Abs(error) > 5000 THEN [lower |-> 300, upper |-> 100]
    ELSE [lower |-> c.dbLower, upper |-> c.dbUpper]

\* the mode scaling of BioSupervisor.autoTune
ModeScale(c, mode, error, variance) ==
    IF mode = "RAMP"
    THEN [c EXCEPT !.horizon = Div(@ * 12, 10), !.lr = Div(@ * 14, 10),
                   !.maxVel = Div(@ * 16, 10), !.enableIntegral = FALSE]
    ELSE IF mode = "RECOVERY"
    THEN [c EXCEPT !.horizon = Div(@ * 13, 10), !.lr = Div(@ * 6, 10),
                   !.maxVel = Div(@ * 5, 10), !.enableIntegral = FALSE]
    ELSE LET db == GetAdaptiveDeadband(c, error, variance)
         IN  [c EXCEPT !.enableIntegral = (variance < 20000),
                       !.dbLower = db.lower, !.dbUpper = db.upper]

\* AdaptToPerformance without the resets of the counters
AdaptToPerformanceKeep(s) ==
    LET c1 == IF s.recentOvershoots > 5
              THEN [s.config EXCEPT !.overshootPenalty = Div(@ * 13, 10)] ELSE s.config
        c2 == IF s.recentUndershoots > 5
              THEN [c1 EXCEPT !.undershootPenalty = Div(@ * 8, 10)] ELSE c1
        c3 == IF s.oscillationCount > 10
              THEN [c2 EXCEPT !.momentumPenalty = Div(@ * 14, 10)] ELSE c2
    IN  [s EXCEPT !.config = c3]

\* BioSupervisor.adaptToPerformance() on supervisor s
AdaptToPerformance(s) ==
    LET c1 == IF s.recentOvershoots > 5
              THEN [s.config EXCEPT !.overshootPenalty = Div(@ * 13, 10)] ELSE s.config
        c2 == IF s.recentUndershoots > 5
              THEN [c1 EXCEPT !.undershootPenalty = Div(@ * 8, 10)] ELSE c1
        c3 == IF s.oscillationCount > 10
              THEN [c2 EXCEPT !.momentumPenalty = Div(@ * 14, 10)] ELSE c2
    IN  [s EXCEPT !.config = c3,
                  !.recentOvershoots = IF @ > 5 THEN 0 ELSE @,
                  !.recentUndershoots = IF @ > 5 THEN 0 ELSE @,
                  !.oscillationCount = IF @ > 10 THEN 0 ELSE @]

\* BioSupervisor.autoTune({mode, error, variance, targetHR, hrMax}) at clock t
AutoTune(s, mode, error, variance, targetHR, hrMax, t) ==
    LET sessionDuration == t - s.sessionStartTime
        intent == InferIntent(targetHR, hrMax, sessionDuration, s.sessionDuration)
        c == ModeScale(GetConfigByIntent(intent), mode, error, variance)
    IN  AdaptToPerformance([s EXCEPT !.sessionDuration = sessionDuration,
                                     !.inferredIntent = intent,
                                     !.config = c])

\* detectDrift without the test of the power change
DetectDriftAnyPower(s, observedHR, predictedHR, power, t) ==
    LET drift == Div(95 * s.driftEstimate + 5 * (observedHR - predictedHR), 100)
    IN  [s EXCEPT !.driftEstimate = drift,
                  !.driftOnsetTime =
                      IF Abs(drift) > 2000 /\ (@ = -1 \/ @ = 0) THEN t ELSE @,
                  !.lastPower = power]

\* BioSupervisor.detectDrift(observedHR, predictedHR, power) at clock t
DetectDrift(s, observedHR, predictedHR, power, t) ==
    IF Abs(power - s.lastPower) < 5000
    THEN LET drift == Div(95 * s.driftEstimate + 5 * (observedHR - predictedHR), 100)
         IN  [s EXCEPT !.driftEstimate = drift,
                       !.driftOnsetTime =
                           IF Abs(drift) > 2000 /\ (@ = -1 \/ @ = 0) THEN t ELSE @,
                       !.lastPower = power]
    ELSE [s EXCEPT !.lastPower = power]

\* the isDrifting field of the result of detectDrift
IsDrifting(s) == Abs(s.driftEstimate) > 2500

\* BioSupervisor.updatePerformance(error, hr, target)
UpdatePerformance(s, error, hr, target) ==
    [s EXCEPT !.recentOvershoots = IF hr > target + 1500 THEN @ + 1 ELSE @,
              !.recentUndershoots = IF hr < target - 2000 THEN @ + 1 ELSE @,
              !.oscillationCount =
                  IF s.lastError # 0 /\ Sign(error) * Sign(s.lastError) < 0
                  THEN @ + 1 ELSE @,
              !.lastError = error,
              !.avgError = Div(9 * @ + Abs(error), 10)]

\* BioSupervisor.reset() at clock t: inferredIntent, sessionDuration, lastError
\* and lastPower are not assigned
SupervisorReset(s, t) ==
    [s EXCEPT !.sessionStartTime = t,
              !.recentOvershoots = 0, !.recentUndershoots = 0, !.oscillationCount = 0,
              !.avgError = 0, !.driftEstimate = 0, !.driftOnsetTime = -1,
              !.config = GetConfigByIntent("TRAINING")]

----------------------------------------------------------------------------
(* MODULE 6: MultiObjectiveBlender *)

RECURSIVE MinSeq(_)
MinSeq(s) == IF Len(s) = 1 THEN s[1] ELSE Min(Head(s), MinSeq(Tail(s)))

RECURSIVE MaxSeq(_)
MaxSeq(s) == IF Len(s) = 1 THEN s[1] ELSE Max(Head(s), MaxSeq(Tail(s)))

\* the square of a milli value, in 1/100
Square(e) == Div(Div(e, 10) * Div(e, 10), 100)

\* the tracking cost of calculateCost: the squared distance of the mean prediction
\* from the dead-band around the target, times 22
TrackingCost(meanHR, target, c) ==
    LET trackingError == IF meanHR > target + c.dbUpper THEN meanHR - target - c.dbUpper
                         ELSE IF meanHR < target - c.dbLower THEN target - c.dbLower - meanHR
                         ELSE 0
    IN  Square(trackingError) * 22

\* the safety cost of calculateCost: the overshoot cost on p95 and the
\* undershoot cost on p05
SafetyCost(p05, p95, target, c) ==
    LET overshootCost == IF p95 > target + 700
                         THEN MulDiv(Square(p95 - target), c.overshootPenalty, 10) ELSE 0
        undershootCost == IF p05 < target - 1500
                          THEN MulDiv(Square(target - p05), c.undershootPenalty, 10) ELSE 0
    IN  overshootCost + undershootCost

\* the comfort cost of calculateCost
ComfortCost(testPower, currentPower, c) ==
    MulDiv(Square(testPower - currentPower), c.momentumPenalty, 100)

\* MultiObjectiveBlender.calculateCost on 8 predictions: after the sort,
\* predictions[0] is the least and predictions[floor(8 * 0.95)] = predictions[7] the greatest
CalculateCost(predictions, target, testPower, currentPower, c) ==
    LET meanHR == Div(SumSeq(predictions), Len(predictions))
        p05 == MinSeq(predictions)
        p95 == MaxSeq(predictions)
    IN  MulDiv(TrackingCost(meanHR, target, c), c.alpha, 100)
          + MulDiv(SafetyCost(p05, p95, target, c), c.beta, 100)
          + MulDiv(ComfortCost(testPower, currentPower, c), c.gamma, 100)

\* MultiObjectiveBlender.blend(basePower, integralAdj, {weights, mode, lastPower})
Blend(basePower, integralAdj, c, mode, lastPower) ==
    LET trackingPower == basePower + integralAdj
        maxChange == IF mode = "RAMP" THEN 8000 ELSE IF mode = "RECOVERY" THEN 3000 ELSE 4000
        safetyPower == Max(lastPower - maxChange, Min(lastPower + maxChange, trackingPower))
        comfortPower == Div(3 * lastPower + 7 * safetyPower, 10)
    IN  Div(c.alpha * trackingPower + c.beta * safetyPower + c.gamma * comfortPower, 100)

----------------------------------------------------------------------------
(* MPCv10: noise process and optimizer *)

\* the k-th value Math.random() returns during one update, in 1/1000, for the
\* random stream chosen by `seed`: stream 0 is the constant 0.5
Random(seed, k) == IF seed = 0 THEN 500 ELSE (seed * 389 + k * 617) % 1000

\* MPCv10.nextNoise(2.0): theta = 0.15, sigma = 0.1, dW = (u - 0.5) * 2 * sqrt(2)
NextNoise(value, u) == value - Div(3 * value, 10) + Div((u - 500) * 28284, 1000)

\* the values noise.value takes over n successive nextNoise calls, draws k, k+1, ...
RECURSIVE NoiseRun(_, _, _, _)
NoiseRun(value, seed, k, n) ==
    IF n = 0 THEN <<>>
    ELSE LET v == NextNoise(value, Random(seed, k))
         IN  <<v>> \o NoiseRun(v, seed, k + 1, n - 1)

\* velocity = momentum * velocity - lr * grad, clamped to +-maxVel; the gradient
\* saturates at +-1000, beyond which the clamp to maxVel decides the result
Velocity(velocity, lr, maxVel, grad) ==
    Clamp(-maxVel, maxVel,
          Div(4 * velocity, 10) - Div(lr * Clamp(-100000, 100000, grad), 100))

\* AntiWindup testing outputMax only
AntiWindupMaxOnly(vel, moved, outLim) ==
    IF moved >= outLim.max THEN 0 ELSE vel

\* the anti-windup branch of the optimizer loop: the velocity after power += velocity
AntiWindup(vel, moved, outLim) ==
    IF moved >= outLim.max \/ moved <= outLim.min THEN 0 ELSE vel

\* iteration i (0..7) of the optimizer loop of MPCv10.update, from the loop
\* state p = [power, velocity, noise, hit]; hit collects the iterations in which
\* the anti-windup branch was taken
OptIter(p, i, o, c, lr, maxVel, in, outLim) ==
    LET run == NoiseRun(p.noise, in.seed, 16 * i, 16)
        basePlus == PredictHR(o, p.power + 1000, c.horizon)
        baseMinus == PredictHR(o, p.power - 1000, c.horizon)
        predictionsPlus == [s \in 1..8 |-> basePlus + Div(run[2 * s - 1] * 5, 100)]
        predictionsMinus == [s \in 1..8 |-> baseMinus + Div(run[2 * s] * 5, 100)]
        costPlus == CalculateCost(predictionsPlus, in.targetHR, p.power + 1000,
                                  in.currentPower, c)
        costMinus == CalculateCost(predictionsMinus, in.targetHR, p.power - 1000,
                                   in.currentPower, c)
        grad == Div(costPlus - costMinus, 2)
        vel == Velocity(p.velocity, lr, maxVel, grad)
        moved == p.power + vel
        bound == moved >= outLim.max \/ moved <= outLim.min
    IN  [power |-> Max(outLim.min, Min(outLim.max, moved)),
         velocity |-> AntiWindup(vel, moved, outLim),
         noise |-> run[16],
         hit |-> IF bound THEN p.hit \cup {i} ELSE p.hit]

\* the 8 iterations of the optimizer loop, from power = state.lastPower and
\* velocity = state.momentum
Optimize(power, velocity, nz, o, c, lr, maxVel, in, outLim) ==
    LET loop[i \in 0..8] ==
            IF i = 0 THEN [power |-> power, velocity |-> velocity, noise |-> nz, hit |-> {}]
            ELSE OptIter(loop[i - 1], i - 1, o, c, lr, maxVel, in, outLim)
    IN  loop[8]

----------------------------------------------------------------------------
(* MPCv10: parameter adaptation *)

\* the learned parameters of MPCv10.resetRLS() / the constructors
RlsInit(config) ==
    [theta |-> 45000, tauRise |-> config.tauHRRise, tauFall |-> config.tauHRFall]

\* the clamps of MPCv10.updateAdaptation
ClampTheta(v) == Clamp(25000, 80000, v)
ClampTauRise(v) == Clamp(15000, 60000, v)
\* ClampTauFall with the lower limit of tauRise
ClampTauFallLoose(v) == Clamp(15000, 120000, v)
ClampTauFall(v) == Clamp(25000, 120000, v)

\* MPCv10.updateAdaptation(currentPower, currentHR): the new rls, given the
\* histories after this tick's push and the seconds elapsed since history.startTime
UpdateAdaptation(r, h, currentPower, currentHR, elapsed) ==
    LET delayedModel == IF h.modelOutput[1] = 0 THEN currentHR ELSE h.modelOutput[1]
        error == currentHR - delayedModel
        effectiveErr == Clamp(-5000, 5000, error)
        learnBoost == IF elapsed < 300 THEN 5 ELSE IF elapsed < 600 THEN 2 ELSE 1
        theta == ClampTheta(r.theta
                    + MulDiv(effectiveErr * learnBoost, Div(currentPower, 200), 200000))
        recent == LastN(h.hr, 5)
        dydt2 == (recent[4] + recent[5]) - (recent[1] + recent[2])     \* dydt * 2
        up == 10000 + 5 * learnBoost
        down == 10000 - 5 * learnBoost
        tauRise == IF dydt2 > 1000
                   THEN MulDiv(r.tauRise, IF error > 0 THEN down ELSE up, 10000)
                   ELSE r.tauRise
        tauFall == IF dydt2 <= 1000 /\ dydt2 < -1000
                   THEN MulDiv(r.tauFall, IF error > 0 THEN up ELSE down, 10000)
                   ELSE r.tauFall
    IN  IF Len(h.hr) >= 5
        THEN [theta |-> theta, tauRise |-> ClampTauRise(tauRise),
              tauFall |-> ClampTauFall(tauFall)]
        ELSE [r EXCEPT !.theta = theta]

----------------------------------------------------------------------------
(* MPCv10 / MPCv10_1: construction *)

\* new MPCv10(config): outputMin = config.outputMin || 50, outputMax = config.outputMax || 400,
\* hrMax = config.hrMax || 195
ConfigV10(outputMin, outputMax, hrMax) ==
    [outputMin |-> IF outputMin = 0 THEN 50000 ELSE outputMin,
     outputMax |-> IF outputMax = 0 THEN 400000 ELSE outputMax,
     hrMax |-> IF hrMax = 0 THEN 195000 ELSE hrMax,
     tauHRRise |-> 25000, tauHRFall |-> 45000, tuned |-> FALSE]

\* new MPCv10_1(config): params.tauHRRise = 20, params.tauHRFall = 30
ConfigV10_1(outputMin, outputMax, hrMax) ==
    [ConfigV10(outputMin, outputMax, hrMax)
        EXCEPT !.tauHRRise = 20000, !.tauHRFall = 30000, !.tuned = TRUE]

\* the DemandObserver after the constructor: MPCv10_1 calls updateParams
ObserverNew(config) ==
    IF config.tuned THEN ObserverUpdateParams(ObserverInit, RlsInit(config)) ELSE ObserverInit

\* the BioSupervisor after the constructor: MPCv10_1 sets config.horizon = 45, config.lr = 0.65
SupervisorNew(config, t) ==
    IF config.tuned
    THEN [SupervisorInit(t) EXCEPT !.config.horizon = 450, !.config.lr = 650]
    ELSE SupervisorInit(t)

HistoryInit(t) == [modelOutput |-> <<>>, hr |-> <<>>, power |-> <<>>, startTime |-> t]

StateInit == [currentDemand |-> 65000, lastPower |-> 100000, momentum |-> 0,
              initialized |-> FALSE]

WeightsInit == [alpha |-> 60, beta |-> 30, gamma |-> 10]

NoCall == [op |-> "new", targetHR |-> 0, rawHR |-> 0, currentPower |-> 0, seed |-> 0,
           ret |-> 0, first |-> FALSE, filteredHR |-> 0, detected |-> "NONE",
           modeBefore |-> ModeInit, optPower |-> 0, hit |-> {}, atLimit |-> FALSE,
           accBefore |-> 0, integralAdjust |-> 0, adapted |-> FALSE,
           hrBefore |-> <<>>, powerBefore |-> <<>>, modelBefore |-> <<>>,
           windowBefore |-> <<>>, momentumBefore |-> 0,
           rlsBefore |-> [theta |-> 0, tauRise |-> 0, tauFall |-> 0],
           observed |-> [demand |-> 0, hr |-> 0], isDrifting |-> FALSE,
           lastErrorBefore |-> 0]

----------------------------------------------------------------------------
(* MPCv10.update and MPCv10.reset *)

\* the first update after construction or reset (state.initialized false):
\* the new values of the fields it assigns, and the call record
First(in, t) ==
    LET k1 == KalmanUpdate(kalman, in.rawHR)
        filteredHR == k1.x
    IN  [state |-> [state EXCEPT !.currentDemand = filteredHR,
                                 !.lastPower = in.currentPower,
                                 !.initialized = TRUE],
         history |-> [history EXCEPT !.startTime = t],
         kalman |-> KalmanReset(filteredHR),
         obs |-> [obs EXCEPT !.hr = filteredHR, !.demand = filteredHR],
         call |-> [NoCall EXCEPT !.op = "update", !.first = TRUE,
                                 !.targetHR = in.targetHR, !.rawHR = in.rawHR,
                                 !.currentPower = in.currentPower,
                                 !.ret = in.currentPower, !.filteredHR = filteredHR,
                                 !.modeBefore = modeRec,
                                 !.accBefore = integral.accumulated,
                                 !.hrBefore = history.hr, !.powerBefore = history.power,
                                 !.modelBefore = history.modelOutput,
                                 !.windowBefore = kalman.history,
                                 !.momentumBefore = state.momentum,
                                 !.rlsBefore = rls]]

UpdateFirst(in, t) ==
    /\ ~state.initialized
    /\ \E r \in {First(in, t)} :
        /\ state' = r.state
        /\ history' = r.history
        /\ kalman' = r.kalman
        /\ obs' = r.obs
        /\ call' = r.call
    /\ UNCHANGED <<cfg, modeRec, integral, sup, rls, noise, weights, physio>>

\* the adaptation gate without the test of the tracking error
AdaptsAnyError(error, currentPower) == currentPower >= 10000

\* step 9 calls updateAdaptation when |error| < 25, and updateAdaptation
\* returns at once when currentPower < 10
Adapts(error, currentPower) == Abs(error) < 25000 /\ currentPower >= 10000

\* Every later update runs steps 1 to 13 of MPCv10.update. Each operator below
\* is a group of steps: it takes the record x of the values computed so far and
\* adds its own.

\* steps 1, 3 (classification) and 4: the Kalman filter, the detection and the
\* variance of the heart-rate history, all read from the state before the tick
TickFilter(in, t) ==
    [in |-> in, t |-> t,
     k1 |-> KalmanUpdate(kalman, in.rawHR),
     detected |-> DetectedMode(modeRec, history.hr, history.power),
     hrVariance |-> IF Len(history.hr) >= 5 THEN Variance5(LastN(history.hr, 5)) ELSE 0]

\* steps 2 and 3: the observer update, the hysteresis, the error
TickObserve(x) ==
    x @@ [filteredHR |-> x.k1.x,
          o1 |-> ObserverUpdate(obs, x.k1.x, x.in.currentPower),
          m1 |-> Hysteresis(modeRec, x.detected),
          error |-> x.in.targetHR - x.k1.x]

\* steps 5 and 8: autoTune, the Smith predictor and the history pushes
TickTune(x) ==
    x @@ [s1 |-> AutoTune(sup, x.m1.currentMode, x.error, x.hrVariance,
                          x.in.targetHR, cfg.hrMax, x.t),
          h1 |-> [history EXCEPT
                    !.modelOutput = PushCap(@, PredictHR(x.o1, x.in.currentPower, 80), 4),
                    !.hr = PushCap(@, x.filteredHR, 20),
                    !.power = PushCap(@, x.in.currentPower, 10)],
          adapts |-> Adapts(x.error, x.in.currentPower),
          big |-> Abs(x.error) > 15000]

\* steps 6, 7 and 9: drift, performance statistics and the adaptation
TickLearn(x) ==
    x @@ [s3 |-> UpdatePerformance(
                    DetectDrift(x.s1, x.filteredHR, x.o1.hr, x.in.currentPower, x.t),
                    x.error, x.filteredHR, x.in.targetHR),
          c |-> x.s1.config,
          r1 |-> IF x.adapts
                 THEN UpdateAdaptation(rls, x.h1, x.in.currentPower, x.filteredHR,
                                       x.t - x.h1.startTime)
                 ELSE rls]

\* step 9 (updateParams) and the optimizer's step sizes of step 10
TickParams(x) ==
    x @@ [o2 |-> IF x.adapts THEN ObserverUpdateParams(x.o1, x.r1) ELSE x.o1,
          lr |-> IF x.big THEN Div(x.c.lr * 13, 10) ELSE x.c.lr,
          maxVel |-> IF x.big THEN Div(x.c.maxVel * 15, 10) ELSE x.c.maxVel]

\* step 10: the optimizer
TickOptimize(x) ==
    x @@ [opt |-> Optimize(state.lastPower, state.momentum, noise, x.o2, x.c, x.lr,
                           x.maxVel, x.in,
                           [min |-> cfg.outputMin, max |-> cfg.outputMax])]

\* step 11: the integral
TickIntegral(x) ==
    x @@ [atLimit |-> x.opt.power >= cfg.outputMax - 5000
                        \/ x.opt.power <= cfg.outputMin + 5000]

TickIntegralUpdate(x) ==
    x @@ [iu |-> IntegralUpdate(integral, x.error, x.m1.currentMode, x.atLimit)]

\* steps 12 and 13: blend and clamp
TickBlend(x) ==
    x @@ [integralAdjust |-> IF x.c.enableIntegral THEN x.iu.adjust ELSE 0]

TickClamp(x) ==
    x @@ [clampedPower |->
            Max(cfg.outputMin,
                Min(cfg.outputMax,
                    Blend(x.opt.power, x.integralAdjust, x.c, x.m1.currentMode,
                          state.lastPower)))]

\* the demand step of MPCv10.update's last lines, from demand d with the power
\* emitted: d + (clampedPower * rls.theta + hrMin - d) / tauDemand * 2
AdvancedDemand(d, clampedPower, theta) ==
    d + Div((TargetDemand(clampedPower, theta) - d) * 2, 20)

\* step 13: the new values of the controller's fields, and the call record
TickResult(x) ==
    [kalman |-> x.k1, obs |-> x.o2, modeRec |-> x.m1, sup |-> x.s3, history |-> x.h1,
     rls |-> x.r1, noise |-> x.opt.noise, integral |-> x.iu.integral,
     weights |-> [alpha |-> x.c.alpha, beta |-> x.c.beta, gamma |-> x.c.gamma],
     state |-> [state EXCEPT
                 !.currentDemand = AdvancedDemand(@, x.clampedPower, x.r1.theta),
                 !.momentum = x.opt.velocity,
                 !.lastPower = x.clampedPower],
     call |-> [op |-> "update", first |-> FALSE,
               targetHR |-> x.in.targetHR, rawHR |-> x.in.rawHR,
               currentPower |-> x.in.currentPower, seed |-> x.in.seed,
               ret |-> x.clampedPower, filteredHR |-> x.filteredHR,
               detected |-> x.detected, modeBefore |-> modeRec,
               optPower |-> x.opt.power, hit |-> x.opt.hit, atLimit |-> x.atLimit,
               accBefore |-> integral.accumulated,
               integralAdjust |-> x.integralAdjust, adapted |-> x.adapts,
               hrBefore |-> history.hr, powerBefore |-> history.power,
               modelBefore |-> history.modelOutput,
               windowBefore |-> kalman.history,
               momentumBefore |-> state.momentum, rlsBefore |-> rls,
               observed |-> [demand |-> x.o1.demand, hr |-> x.o1.hr],
               isDrifting |-> IsDrifting(x.s3),
               lastErrorBefore |-> integral.lastError,
               supBefore |-> sup,
               obsBefore |-> [gain |-> obs.gain, tauRise |-> obs.tauRise,
                              tauFall |-> obs.tauFall]]]

\* MPCv10.update past the cold start, at clock t
Tick(in, t) ==
    TickResult(TickClamp(TickBlend(TickIntegralUpdate(TickIntegral(TickOptimize(
        TickParams(TickLearn(TickTune(TickObserve(TickFilter(in, t)))))))))))

UpdateTick(in, t) ==
    /\ state.initialized
    /\ \E r \in {Tick(in, t)} :
        /\ kalman' = r.kalman
        /\ obs' = r.obs
        /\ modeRec' = r.modeRec
        /\ sup' = r.sup
        /\ history' = r.history
        /\ rls' = r.rls
        /\ noise' = r.noise
        /\ integral' = r.integral
        /\ weights' = r.weights
        /\ state' = r.state
        /\ call' = r.call
    /\ UNCHANGED <<cfg, physio>>

\* MPCv10.reset() at clock t
ResetAt(t) ==
    /\ state' = [state EXCEPT !.initialized = FALSE]
    /\ rls' = RlsInit(cfg)
    /\ history' = HistoryInit(t)
    /\ sup' = SupervisorReset(sup, t)
    /\ obs' = ObserverReset(obs)
    /\ kalman' = KalmanReset(70000)
    /\ modeRec' = ModeInit
    /\ integral' = IntegralInit
    /\ call' = [NoCall EXCEPT !.op = "reset"]
    /\ UNCHANGED <<cfg, noise, weights, physio>>

----------------------------------------------------------------------------
(* PhysioController (src/src/control/mpc-asymmetric-v7-6.js).  Its clock is the
   same Date.now(); dt is in seconds. *)

\* new PhysioController({outputMin, outputMax}); initialRestHR null is -1, and
\* overshootTimer, which only the first update defines, is 0
PhysioNew(config) ==
    [outputMin |-> config.outputMin, outputMax |-> config.outputMax,
     hrBuffer |-> <<>>, hrBufferWindow |-> 10,
     lastUpdateTime |-> 0, lastOutputPower |-> 0, lastHR |-> 0,
     isInitialized |-> FALSE, initialRestHR |-> -1, overshootTimer |-> 0]

\* PhysioController.getFilteredHR() on a buffer
GetFilteredHR(hrBuffer) ==
    IF Len(hrBuffer) = 0 THEN 0 ELSE Div(SumSeq(hrBuffer), Len(hrBuffer))

\* slewRate * dt of the recovery zone: error * 0.02 W/s, between 0.04 and
\* MAX_SLEW_RATE = 1.0
MaxRise(error, dt) == Min(1000, Max(40, Div(error * 2, 100))) * dt

\* RecoveryAdjustment without the cap of the slew rate
RecoveryAdjustmentUncapped(error, dt) == Div(error * 3, 10)

\* the adjustment of the recovery zone: error * Kp, capped by the rise the slew
\* rate allows in dt seconds
RecoveryAdjustment(error, dt) == Min(Div(error * 3, 10), MaxRise(error, dt))

\* steps 3 to the end of PhysioController.update for an initialized controller
\* g whose buffer holds the new sample, at clock t: the controller afterwards
\* and the value returned
PhysioStep(g, targetHR, filteredHR, t) ==
    LET dt == t - g.lastUpdateTime
        operationalTarget == targetHR - 1000
        overshootThreshold == operationalTarget + 1000
        safeFloor == operationalTarget - 1000
        timed == [g EXCEPT !.lastUpdateTime = t]
        limited(targetPower) == Min(g.outputMax, Max(80000, targetPower))
    IN  IF dt < 4 THEN [g |-> g, ret |-> g.lastOutputPower]
        ELSE IF filteredHR > overshootThreshold
        THEN IF g.overshootTimer + dt < 3
             THEN [g |-> [timed EXCEPT !.overshootTimer = @ + dt],
                   ret |-> g.lastOutputPower]
             ELSE [g |-> [timed EXCEPT !.overshootTimer = @ + dt,
                                       !.lastOutputPower = limited(@ - 200 * dt)],
                   ret |-> limited(g.lastOutputPower - 200 * dt)]
        ELSE IF filteredHR >= safeFloor
        THEN [g |-> [timed EXCEPT !.overshootTimer = 0], ret |-> g.lastOutputPower]
        ELSE [g |-> [timed EXCEPT
                       !.overshootTimer = 0,
                       !.lastOutputPower =
                           limited(@ + RecoveryAdjustment(operationalTarget - filteredHR, dt))],
              ret |-> limited(g.lastOutputPower
                                + RecoveryAdjustment(operationalTarget - filteredHR, dt))]

\* PhysioController.update(targetHR, currentHR, currentPower) at clock t
PhysioUpdate(g, targetHR, currentHR, t) ==
    LET buffered == [g EXCEPT !.hrBuffer = PushCap(@, currentHR, g.hrBufferWindow)]
        filteredHR == GetFilteredHR(buffered.hrBuffer)
    IN  IF ~g.isInitialized
        THEN [g |-> [buffered EXCEPT !.initialRestHR = currentHR, !.isInitialized = TRUE,
                                     !.lastUpdateTime = t, !.lastHR = currentHR,
                                     !.overshootTimer = 0, !.lastOutputPower = 100000],
              ret |-> 100000, filteredHR |-> filteredHR]
        ELSE PhysioStep(buffered, targetHR, filteredHR, t) @@ [filteredHR |-> filteredHR]

----------------------------------------------------------------------------
(* The caller *)

\* the control loop period of app.js in seconds (setInterval(..., 2000 / simulationSpeed))
TickSeconds == 2

\* the clock value at construction
StartClock == 1000

\* currentPowerTarget = Math.round(newPower), in 1/1000 W
Round(v) == Div(v + 500, 1000) * 1000

\* app.js after start-up: the state object's ride flags (the BLE connection
\* in use, no ride, nothing connected, speed 1), no interval armed (0; an armed
\* interval is its period in ms), and no setpoint handed to conn.setPower yet
AppInit ==
    [useMock |-> FALSE, isRunning |-> FALSE, isConnected |-> FALSE,
     simulationSpeed |-> 1, elapsed |-> 0, controlInterval |-> 0, timerInterval |-> 0,
     setpoint |-> 0]

\* Connectable(): no device stored.  The device it will be given is not
\* connected and has no gattserverdisconnected listener; no reconnect loop
\* runs (pc "idle") and no disconnect(type) is under way
BleInit ==
    [stored |-> FALSE, connected |-> FALSE, listening |-> FALSE,
     pc |-> "idle", attempts |-> 0, disconnecting |-> FALSE, userDisconnected |-> FALSE]

\* what the caller holds: the number of calls made, the inputs, results and
\* drift verdicts of the updates since the last reset (log) and of the run before it (prev), the
\* last three detections of the mode recogniser since the last reset (dets),
\* the scripted session being played and app.js's currentPowerTarget (power)
EnvInit(script) == [calls |-> 0, log |-> <<>>, prev |-> <<>>, dets |-> <<>>,
                    script |-> script, power |-> 100000]

\* the state after new MPCv10(config) / new MPCv10_1(config)
Constructed(config, script) ==
    /\ cfg = config
    /\ now = StartClock
    /\ kalman = KalmanInit
    /\ modeRec = ModeInit
    /\ integral = IntegralInit
    /\ obs = ObserverNew(config)
    /\ sup = SupervisorNew(config, StartClock)
    /\ rls = RlsInit(config)
    /\ history = HistoryInit(StartClock)
    /\ state = StateInit
    /\ noise = 0
    /\ weights = WeightsInit
    /\ physio = PhysioNew(config)
    /\ call = NoCall
    /\ env = EnvInit(script)
    /\ app = AppInit
    /\ ble = BleInit

\* controller.update(targetHR, rawHR, currentPower) after `wait` seconds, and
\* currentPowerTarget = Math.round(newPower)
CallAfter(in, wait) ==
    /\ \/ UpdateFirst(in, now + wait)
       \/ UpdateTick(in, now + wait)
    /\ now' = now + wait
    /\ env' = [env EXCEPT
                !.calls = @ + 1,
                !.log = Append(@, [targetHR |-> in.targetHR, rawHR |-> in.rawHR,
                                   currentPower |-> in.currentPower,
                                   seed |-> call'.seed, ret |-> call'.ret,
                                   isDrifting |-> call'.isDrifting]),
                !.dets = IF call'.detected = "NONE" THEN @
                         ELSE LastN(Append(@, call'.detected), 3),
                !.power = Round(call'.ret)]

\* controller.update(targetHR, rawHR, currentPower) one control period later
Call(in) == CallAfter(in, TickSeconds) /\ UNCHANGED <<app, ble>>

\* controller.reset()
ResetCall ==
    /\ ResetAt(now)
    /\ now' = now
    /\ env' = [env EXCEPT !.calls = @ + 1, !.prev = env.log, !.log = <<>>,
                          !.dets = <<>>]
    /\ UNCHANGED <<app, ble>>

----------------------------------------------------------------------------
(* Spec: any sequence of update and reset calls on a default MPCv10 *)

MaxCalls == 3

TargetHRs == {130000}
RawHRs == {80000, 188000}
Powers == {5000, 50000, 398000}
Seeds == {0, 1}

Init == Constructed(ConfigV10(0, 0, 0), "api")

Update ==
    \E targetHR \in TargetHRs, rawHR \in RawHRs, currentPower \in Powers, seed \in Seeds :
        /\ env.calls < MaxCalls
        /\ Call([targetHR |-> targetHR, rawHR |-> rawHR,
                 currentPower |-> currentPower, seed |-> seed])

Reset ==
    /\ env.calls < MaxCalls
    /\ call.op = "update"
    /\ ResetCall

Next == Update \/ Reset

Spec == Init /\ [][Next]_vars

----------------------------------------------------------------------------
(* SpecReplay: a run of updates, reset(), and the same inputs again with the
   random source and the clock rewound to the values of the first run *)

RunLen == 2

\* the heart rates and powers the caller reports, one power below outputMin
RunHRs == {60000, 80000}
AnyPowers == {30000, 200000, 398000}

Run ==
    \E targetHR \in TargetHRs, rawHR \in RunHRs, currentPower \in AnyPowers, seed \in Seeds :
        /\ env.prev = <<>>
        /\ Len(env.log) < RunLen
        /\ Call([targetHR |-> targetHR, rawHR |-> rawHR,
                 currentPower |-> currentPower, seed |-> seed])

RunReset ==
    /\ env.prev = <<>>
    /\ Len(env.log) = RunLen
    /\ ResetAt(StartClock)
    /\ now' = StartClock
    /\ env' = [env EXCEPT !.calls = @ + 1, !.prev = env.log, !.log = <<>>,
                          !.dets = <<>>]
    /\ UNCHANGED <<app, ble>>

Replay ==
    /\ env.prev # <<>>
    /\ Len(env.log) < Len(env.prev)
    /\ \E in \in {env.prev[Len(env.log) + 1]} :
        Call([targetHR |-> in.targetHR, rawHR |-> in.rawHR,
              currentPower |-> in.currentPower, seed |-> in.seed])

NextReplay == Run \/ RunReset \/ Replay

SpecReplay == Init /\ [][NextReplay]_vars

----------------------------------------------------------------------------
(* SpecSession: rides as app.js drives them. startRide() resets the controller
   and sets currentPowerTarget = 100; every control period the loop calls
   update(targetHR, hr, currentPowerTarget) and rounds the result into
   currentPowerTarget. The heart rate and the target follow a script. *)

MaxTicks == 130

\* the tick after which the rider may stop and start the ride again, once
RestartTick == 30

Scripts == {"spike", "fall", "cool", "stuck", "swing"}

\* the controller the ride uses
ScriptConfig(script) ==
    IF script = "fall" THEN ConfigV10_1(0, 0, 0) ELSE ConfigV10(0, 0, 0)

\* the heart rate the sensor reports at tick n (0, 1, ...) of the ride
ScriptHR(script, n) ==
    CASE script = "spike" -> IF n = 3 THEN 140000 ELSE 60000
      [] script = "fall" -> Max(180000 - 1000 * n, 60000)
      [] script = "cool" -> 70000
      [] script = "stuck" -> 140000
      [] script = "swing" -> IF n % 2 = 0 THEN 120000 ELSE 140000

\* the target heart rate at tick n of the ride
ScriptTarget(script, n) ==
    CASE script = "spike" -> 130000
      [] script = "fall" -> ScriptHR(script, n) + 10000
      [] script = "cool" -> 71000
      [] script = "stuck" -> 164000
      [] script = "swing" -> 130000

\* the random stream of tick n
ScriptSeed(script, n) == n % 4

InitSession == \E script \in Scripts : Constructed(ScriptConfig(script), script)

StartRide ==
    /\ \/ env.calls = 0
       \/ Len(env.log) = RestartTick /\ env.prev = <<>>
    /\ ResetAt(now)
    /\ now' = now
    /\ env' = [env EXCEPT !.calls = @ + 1, !.prev = env.log, !.log = <<>>,
                          !.dets = <<>>, !.power = 100000]
    /\ UNCHANGED <<app, ble>>

ControlLoop ==
    /\ env.calls > 0
    /\ Len(env.log) < MaxTicks
    /\ Call([targetHR |-> ScriptTarget(env.script, Len(env.log)),
             rawHR |-> ScriptHR(env.script, Len(env.log)),
             currentPower |-> env.power,
             seed |-> ScriptSeed(env.script, Len(env.log))])

NextSession == StartRide \/ ControlLoop

SpecSession == InitSession /\ [][NextSession]_vars

----------------------------------------------------------------------------
(* SpecSupervisor: the BioSupervisor of a controller built with hrMax 200,
   driven through its own methods.  A "tune" harness calls autoTune with drawn
   contexts after drawn waits, and the blender's calculateCost with the config
   autoTune returned; a "feedback" harness calls updatePerformance with drawn
   samples and then autoTune. *)

MaxTunes == 2
MaxPerf == 12

SupScripts == {"tune", "feedback"}

\* targetHR over hrMax 200: 0.70, 0.85, 0.92, 0.95
SupTargets == {140000, 170000, 184000, 190000}

\* seconds that pass before a call: one control period, or 46 minutes
SupWaits == {TickSeconds, 2760}

\* the mode, error and variance that MPCv10.update hands to autoTune
SupContexts ==
    {[mode |-> "STEADY", error |-> 1000, variance |-> 10000],
     [mode |-> "STEADY", error |-> -6000, variance |-> 10000],
     [mode |-> "STEADY", error |-> 3000, variance |-> 30000],
     [mode |-> "RAMP", error |-> 6000, variance |-> 30000],
     [mode |-> "RECOVERY", error |-> -3000, variance |-> 10000]}

\* the heart rate of an updatePerformance sample, relative to its target
SupSamples == {-3000, 3000}

\* synthetic prediction sets of 8 samples, as offsets from the target: all at
\* +0.2, all at +1.0, all at -2.0, one sample at +2.5, one sample at +1.8
CostPredictions ==
    {[i \in 1..8 |-> 200], [i \in 1..8 |-> 1000], [i \in 1..8 |-> -2000],
     [i \in 1..8 |-> IF i = 3 THEN 2500 ELSE 0],
     [i \in 1..8 |-> IF i = 3 THEN 1800 ELSE 0]}

InitSupervisor ==
    \E script \in SupScripts :
        /\ Constructed(ConfigV10(0, 0, 200000), script)

\* supervisor.autoTune({mode, error, variance, targetHR, hrMax}) after a wait
SupAutoTune ==
    \E c \in SupContexts, targetHR \in SupTargets, wait \in SupWaits :
        /\ env.script = "tune" => env.calls < MaxTunes
        /\ env.script = "feedback" => call.op # "autoTune" /\ wait = TickSeconds
        /\ now' = now + wait
        /\ sup' = AutoTune(sup, c.mode, c.error, c.variance, targetHR, cfg.hrMax, now')
        /\ call' = [op |-> "autoTune", mode |-> c.mode, error |-> c.error,
                    variance |-> c.variance, targetHR |-> targetHR,
                    duration |-> sup.sessionDuration, before |-> sup,
                    ret |-> sup'.config]
        /\ env' = [env EXCEPT !.calls = @ + 1]
        /\ UNCHANGED <<cfg, kalman, modeRec, integral, obs, rls, history, state,
                       noise, weights, physio, app, ble>>

\* supervisor.updatePerformance(error, hr, target) with target 150
SupUpdatePerformance ==
    \E d \in SupSamples :
        /\ env.script = "feedback"
        /\ call.op # "autoTune"
        /\ env.calls < MaxPerf
        /\ sup' = UpdatePerformance(sup, -d, 150000 + d, 150000)
        /\ call' = [op |-> "updatePerformance", error |-> -d, before |-> sup]
        /\ env' = [env EXCEPT !.calls = @ + 1]
        /\ UNCHANGED <<cfg, kalman, modeRec, integral, obs, rls, history, state,
                       noise, weights, physio, now, app, ble>>

\* blender.calculateCost(predictions, target, testPower, currentPower, config)
\* on a synthetic prediction set and the config the last autoTune returned
SupCalculateCost ==
    \E offsets \in CostPredictions :
        /\ env.script = "tune"
        /\ call.op = "autoTune"
        /\ call' = [op |-> "calculateCost",
                    predictions |-> [i \in 1..8 |-> call.targetHR + offsets[i]],
                    targetHR |-> call.targetHR, testPower |-> 101000,
                    currentPower |-> 100000, config |-> call.ret,
                    trackingCost |->
                        TrackingCost(call.targetHR + Div(SumSeq(offsets), 8),
                                     call.targetHR, call.ret),
                    safetyCost |->
                        SafetyCost(call.targetHR + MinSeq(offsets),
                                   call.targetHR + MaxSeq(offsets), call.targetHR, call.ret),
                    comfortCost |-> ComfortCost(101000, 100000, call.ret),
                    ret |-> CalculateCost([i \in 1..8 |-> call.targetHR + offsets[i]],
                                          call.targetHR, 101000, 100000, call.ret)]
        /\ UNCHANGED <<cfg, kalman, modeRec, integral, obs, sup, rls, history, state,
                       noise, weights, physio, now, env, app, ble>>

NextSupervisor == SupAutoTune \/ SupUpdatePerformance \/ SupCalculateCost

SpecSupervisor == InitSupervisor /\ [][NextSupervisor]_vars

----------------------------------------------------------------------------
(* SpecDrift: a test harness feeds a default MPCv10, every control period, a
   heart rate that rises linearly from DriftStartHR, at the constant power
   DriftPower, for five minutes. *)

DriftTicks == 150

\* where the trace starts: the heart rate the demand model settles at for
\* DriftPower with the initial gain, 65 + 0.45 * 100
DriftStartHR == 110000
DriftPower == 100000

DriftScripts == {"rise3", "rise6"}

\* the rise of the trace per tick, in 1/1000 bpm: 3.25 or 6.5 bpm over the trace
DriftRise(script) == IF script = "rise3" THEN 25 ELSE 50

InitDrift == \E script \in DriftScripts : Constructed(ConfigV10(0, 0, 0), script)

Feed ==
    /\ env.calls < DriftTicks
    /\ Call([targetHR |-> 130000,
             rawHR |-> DriftStartHR + DriftRise(env.script) * env.calls,
             currentPower |-> DriftPower,
             seed |-> ScriptSeed(env.script, env.calls)])

SpecDrift == InitDrift /\ [][Feed]_vars

----------------------------------------------------------------------------
(* SpecPhysio: the verification script of src/README.md.  It builds a
   PhysioController with outputMin 50 and outputMax 400 (here also 102), sets
   hrBufferWindow to 1, moves a fake clock and calls update(targetHR, currentHR, 0). *)

MaxSteps == 4

\* controller.hrBufferWindow = 1
ScriptWindow == 1

\* the heart rates the script feeds, around its target 130
PhysioHRs == {80000, 120000, 127000, 128000, 129000, 133000}

\* tick(ms) of the script, in seconds: below and above the 4-second check
PhysioWaits == {2, 5}

\* outputMax of the script, and one close to the starting power of 100 W, which
\* the controller reaches within the steps modelled
PhysioMaxes == {400000, 102000}

InitPhysio ==
    \E outputMax \in PhysioMaxes : Constructed(ConfigV10(50000, outputMax, 0), "verify")

\* controller.hrBufferWindow = 1, the script's first statement after construction
SetWindow ==
    /\ physio.hrBufferWindow # ScriptWindow
    /\ physio' = [physio EXCEPT !.hrBufferWindow = ScriptWindow]
    /\ UNCHANGED <<cfg, kalman, modeRec, integral, obs, sup, rls, history, state,
                   noise, weights, now, call, env, app, ble>>

RunStep ==
    \E currentHR \in PhysioHRs, wait \in PhysioWaits :
        /\ physio.hrBufferWindow = ScriptWindow
        /\ env.calls < MaxSteps
        /\ now' = now + wait
        /\ \E r \in {PhysioUpdate(physio, 130000, currentHR, now')} :
              /\ physio' = r.g
              /\ call' = [op |-> "physio", targetHR |-> 130000, currentHR |-> currentHR,
                          filteredHR |-> r.filteredHR, first |-> ~physio.isInitialized,
                          dt |-> now' - physio.lastUpdateTime,
                          before |-> physio, ret |-> r.ret]
        /\ env' = [env EXCEPT !.calls = @ + 1]
        /\ UNCHANGED <<cfg, kalman, modeRec, integral, obs, sup, rls, history, state,
                       noise, weights, app, ble>>

NextPhysio == SetWindow \/ RunStep

SpecPhysio == InitPhysio /\ [][NextPhysio]_vars

----------------------------------------------------------------------------
(* SpecIntegral: a SmartIntegral on its own, as MPCv10 builds it, driven by
   update(error, mode, atPowerLimit) and reset().  A script repeats one error
   inside the accumulation band (the accumulator needs 20 such calls to reach
   its upper limit and 30 to reach the lower one); up to MaxDepartures times
   the caller departs from it with any other call or a reset. *)

MaxIntegralCalls == 32

MaxDepartures == 2

IntegralScripts == {"windUp", "windDown"}

\* the arguments a script repeats
IntegralMain(script) ==
    [error |-> IF script = "windUp" THEN 2500 ELSE -2500, mode |-> "STEADY",
     atPowerLimit |-> FALSE]

\* the arguments of a departure: errors on both sides of zero inside and
\* outside the 2.5 bpm band, every mode, at the power limit and away from it
IntegralContexts ==
    {[error |-> -1000, mode |-> "STEADY", atPowerLimit |-> FALSE],
     [error |-> 6000, mode |-> "STEADY", atPowerLimit |-> FALSE],
     [error |-> 1000, mode |-> "STEADY", atPowerLimit |-> TRUE],
     [error |-> -6000, mode |-> "RAMP", atPowerLimit |-> FALSE],
     [error |-> -1000, mode |-> "RECOVERY", atPowerLimit |-> TRUE]}

InitIntegral ==
    \E script \in IntegralScripts : Constructed(ConfigV10(0, 0, 200000), script)

\* this.integral.update(error, mode, atPowerLimit)
IntegralCall ==
    \E c \in IntegralContexts \cup {IntegralMain(env.script)} :
        /\ env.calls < MaxIntegralCalls
        /\ c # IntegralMain(env.script) => Len(env.log) < MaxDepartures
        /\ \E r \in {IntegralUpdate(integral, c.error, c.mode, c.atPowerLimit)} :
              /\ integral' = r.integral
              /\ call' = [op |-> "integral", error |-> c.error, mode |-> c.mode,
                          atPowerLimit |-> c.atPowerLimit, before |-> integral,
                          ret |-> r.adjust]
        /\ env' = [env EXCEPT !.calls = @ + 1,
                              !.log = IF c = IntegralMain(env.script)
                                      THEN @ ELSE Append(@, "update")]
        /\ UNCHANGED <<cfg, kalman, modeRec, obs, sup, rls, history, state, noise,
                       weights, physio, now, app, ble>>

\* this.integral.reset()
IntegralResetCall ==
    /\ env.calls < MaxIntegralCalls
    /\ Len(env.log) < MaxDepartures
    /\ integral' = IntegralInit
    /\ call' = [op |-> "integralReset", before |-> integral]
    /\ env' = [env EXCEPT !.calls = @ + 1, !.log = Append(@, "reset")]
    /\ UNCHANGED <<cfg, kalman, modeRec, obs, sup, rls, history, state, noise,
                   weights, physio, now, app, ble>>

NextIntegral == IntegralCall \/ IntegralResetCall

SpecIntegral == InitIntegral /\ [][NextIntegral]_vars

----------------------------------------------------------------------------
(* SpecApp: the ride controls of src/src/app.js.  The user clicks START/STOP,
   the SIMULATOR toggle, a connect button and the speed buttons in any order;
   between clicks the armed intervals fire.  The controller behind
   state.controller is the MPCv10 of this module. *)

MaxAppTicks == 2

MaxElapsed == 2

\* the speed buttons; 4x and 8x give control periods below the clock's second
AppSpeeds == {1, 2}

\* state.targetHR, and the heart rate the sensor has reported into state.hr
AppTargetHR == 127000
AppHRs == {120000}

\* stopLoopsForReconfiguration()
StopLoopsForReconfiguration(a) == [a EXCEPT !.controlInterval = 0, !.timerInterval = 0]

\* stopRide(): isRunning = false, the loops cleared, conn.setPower(50)
StopRide(a) ==
    [StopLoopsForReconfiguration(a) EXCEPT !.isRunning = FALSE, !.setpoint = 50000]

\* startRide() on the app record; the controller.reset() of its starting
\* branch is in the actions that use it
StartRideApp(a) ==
    IF a.isRunning
    THEN StopRide(a)
    ELSE [a EXCEPT !.isRunning = TRUE,
                   !.controlInterval = 2000 \div a.simulationSpeed,
                   !.timerInterval = 1000 \div a.simulationSpeed]

InitApp == Constructed(ConfigV10(50000, 400000, 0), "app")

\* ui.startBtn click: startRide()
ClickStart ==
    /\ app' = StartRideApp(app)
    /\ IF app.isRunning
       THEN /\ call' = [op |-> "stopRide", before |-> app]
            /\ UNCHANGED <<controller, now, env>>
       ELSE /\ ResetAt(now)
            /\ now' = now
            /\ env' = [env EXCEPT !.log = <<>>, !.dets = <<>>, !.power = 100000]
    /\ UNCHANGED ble

\* simBtn click: conn is replaced by a MockConnectable, or by a Connectable again
ClickSimulator ==
    /\ app' = [app EXCEPT !.useMock = ~@]
    /\ call' = [op |-> "simulator", before |-> app]
    /\ UNCHANGED <<controller, now, env, ble>>

\* a connect button click that succeeds, or its disconnect branch
ClickConnect ==
    /\ app' = [app EXCEPT !.isConnected = ~@]
    /\ call' = [op |-> "connect", before |-> app]
    /\ UNCHANGED <<controller, now, env, ble>>

\* a speed button click; conn.setSpeed is a function on the MockConnectable only
ClickSpeed ==
    \E speed \in AppSpeeds :
        /\ app.useMock
        /\ LET chosen == [app EXCEPT !.simulationSpeed = speed]
           IN  app' = IF app.isRunning
                      THEN StartRideApp(StopLoopsForReconfiguration(chosen))
                      ELSE chosen
        /\ call' = [op |-> "setSpeed", speed |-> speed, before |-> app]
        /\ UNCHANGED <<controller, now, env, ble>>

\* the control interval fires
ControlInterval ==
    \E hr \in AppHRs :
        /\ app.controlInterval # 0
        /\ app.isRunning
        /\ env.calls < MaxAppTicks
        /\ CallAfter([targetHR |-> AppTargetHR, rawHR |-> hr,
                      currentPower |-> env.power, seed |-> 0],
                     app.controlInterval \div 1000)
        /\ app' = IF app.isConnected THEN [app EXCEPT !.setpoint = env'.power] ELSE app
        /\ UNCHANGED ble

\* the timer interval fires
TimerInterval ==
    /\ app.timerInterval # 0
    /\ app.elapsed < MaxElapsed
    /\ app' = [app EXCEPT !.elapsed = @ + 1]
    /\ call' = [op |-> "timer", before |-> app]
    /\ UNCHANGED <<controller, now, env, ble>>

NextApp ==
    \/ ClickStart
    \/ ClickSimulator
    \/ ClickConnect
    \/ ClickSpeed
    \/ ControlInterval
    \/ TimerInterval

SpecApp == InitApp /\ [][NextApp]_vars

----------------------------------------------------------------------------
(* SpecBle: a Connectable of src/src/ble/connectable.js with one device (the
   heart-rate monitor).  The user connects and disconnects, the link drops,
   and the auto-reconnect loop started by the gattserverdisconnected listener
   runs between them: every await of the code is a point where the other
   handlers may run.  ble.pc is the position of the reconnect loop: "idle"
   (no loop), "connecting" (awaiting device.gatt.connect()) or "waiting"
   (awaiting the 2 s timer).  A user connect waits for a running loop to end. *)

\* while (!device.gatt.connected && attempts < 10)
ReconnectAttempts == 10

InitBle == Constructed(ConfigV10(50000, 400000, 0), "ble")

\* connectHR() -> scanFor -> connectToDevice: the listener is added, then
\* gatt.connect() and the service discovery succeed and the device is stored,
\* or gatt.connect() throws and scanFor reports the failure
UserConnect ==
    \E success \in BOOLEAN :
        /\ ~ble.stored /\ ~ble.connected /\ ble.pc = "idle" /\ ~ble.disconnecting
        /\ ble' = [ble EXCEPT !.listening = TRUE, !.connected = success,
                              !.stored = success,
                              !.userDisconnected = IF success THEN FALSE ELSE @]
        /\ call' = [op |-> "connectHR", ret |-> success, before |-> ble]
        /\ UNCHANGED <<controller, now, env, app>>

\* the first statements of reconnect(device) and of each turn of its loop, up
\* to the next await: another gatt.connect() if the device is not connected
\* and fewer than 10 attempts were made, else the end of the loop
LoopTurn(b, attempts) ==
    IF ~b.connected /\ attempts < ReconnectAttempts
    THEN [b EXCEPT !.pc = "connecting", !.attempts = attempts + 1]
    ELSE [b EXCEPT !.pc = "idle", !.attempts = attempts]

\* the device drops the link; with the listener in place onDisconnected runs
\* and calls reconnect(device)
LinkLost ==
    /\ ble.connected /\ ~ble.disconnecting /\ ble.pc = "idle"
    /\ ble' = IF ble.listening
              THEN LoopTurn([ble EXCEPT !.connected = FALSE], 0)
              ELSE [ble EXCEPT !.connected = FALSE]
    /\ call' = [op |-> IF ble.listening THEN "gattConnect" ELSE "linkLost",
                auto |-> TRUE, afterDisconnect |-> ble.userDisconnected, before |-> ble]
    /\ UNCHANGED <<controller, now, env, app>>

\* await device.gatt.connect() of the loop settles: reconnected (return), or
\* an error, after which the loop awaits its 2 s timer
ConnectSettles ==
    \E success \in BOOLEAN :
        /\ ble.pc = "connecting"
        /\ ble' = IF success
                  THEN [ble EXCEPT !.connected = TRUE, !.pc = "idle"]
                  ELSE [ble EXCEPT !.pc = "waiting"]
        /\ call' = [op |-> "connectSettled", ret |-> success, before |-> ble]
        /\ UNCHANGED <<controller, now, env, app>>

\* the 2 s timer of the loop fires and the loop takes its next turn
RetryTimer ==
    /\ ble.pc = "waiting"
    /\ ble' = LoopTurn(ble, ble.attempts)
    /\ call' = [op |-> IF ble'.pc = "connecting" THEN "gattConnect" ELSE "lost",
                auto |-> TRUE, afterDisconnect |-> ble.userDisconnected, before |-> ble]
    /\ UNCHANGED <<controller, now, env, app>>

\* disconnect('hr') up to its await: with a stored, connected device the
\* listener is removed and gatt.disconnect() is called; otherwise the function
\* runs to its end, forgetting the device
DisconnectCall ==
    /\ ble.stored /\ ~ble.disconnecting
    /\ ble' = IF ble.connected
              THEN [ble EXCEPT !.listening = FALSE, !.connected = FALSE,
                               !.disconnecting = TRUE]
              ELSE [ble EXCEPT !.stored = FALSE, !.userDisconnected = TRUE]
    /\ call' = [op |-> "disconnect", wasConnected |-> ble.connected, before |-> ble]
    /\ UNCHANGED <<controller, now, env, app>>

\* disconnect('hr') after its await: connectedDevices[type] = null
DisconnectReturns ==
    /\ ble.disconnecting
    /\ ble' = [ble EXCEPT !.disconnecting = FALSE, !.stored = FALSE,
                          !.userDisconnected = TRUE]
    /\ call' = [op |-> "disconnected", before |-> ble]
    /\ UNCHANGED <<controller, now, env, app>>

NextBle ==
    \/ UserConnect
    \/ LinkLost
    \/ ConnectSettles
    \/ RetryTimer
    \/ DisconnectCall
    \/ DisconnectReturns

SpecBle == InitBle /\ [][NextBle]_vars

----------------------------------------------------------------------------
(* Properties of update and reset, checked under Spec and SpecReplay *)

\* a later update, past the cold-start branch
Ticked == call.op = "update" /\ ~call.first

\* C1: every value update returns, the first call after construction or after
\* reset included, lies in [outputMin, outputMax]
OutputWithinLimits ==
    call.op = "update" => cfg.outputMin <= call.ret /\ call.ret <= cfg.outputMax

\* C2: the first update after construction or reset returns currentPower
\* unchanged and leaves the observer's demand and hr equal to the heart rate
\* passed in on that call
ColdStartSeedsFromInput ==
    (call.op = "update" /\ call.first) =>
        /\ call.ret = call.currentPower
        /\ obs.demand = call.rawHR
        /\ obs.hr = call.rawHR

\* C3: after reset() the optimizer momentum, the noise value, the learned
\* parameters of the adapter and of the observer, the supervisor's counters,
\* lastError, lastPower, intent and drift, the filter covariances, the mode and
\* its hysteresis counter, the integral accumulator and the history buffers all
\* equal their values right after construction
ResetRestoresConstruction ==
    call.op = "reset" =>
        /\ state.momentum = StateInit.momentum
        /\ noise = 0
        /\ rls = RlsInit(cfg)
        /\ obs = ObserverNew(cfg)
        /\ sup = SupervisorNew(cfg, now)
        /\ kalman = KalmanInit
        /\ modeRec = ModeInit
        /\ integral = IntegralInit
        /\ history = HistoryInit(now)

\* C7 as stated: on a tick in which some optimizer iteration drives power to or
\* beyond outputMax or outputMin, the momentum stored at the end of the tick is 0
AnyBoundHitZeroesMomentum ==
    (Ticked /\ call.hit # {}) => state.momentum = 0

\* C7 as amended: on a tick in which the last optimizer iteration drives power
\* to or beyond outputMax or outputMin, the momentum stored at the end of the
\* tick is 0
LastBoundHitZeroesMomentum ==
    (Ticked /\ 7 \in call.hit) => state.momentum = 0

\* a tick whose last optimizer iteration ran into a bound with the momentum
\* carried into the tick non-zero
LastBoundHitReached ==
    /\ Ticked /\ 7 \in call.hit
    /\ call.momentumBefore # 0

\* the inputs of one logged update
Inputs(e) == [targetHR |-> e.targetHR, rawHR |-> e.rawHR,
              currentPower |-> e.currentPower, seed |-> e.seed]

\* C4: with the random source and the clock repeating, the updates made after
\* reset() with the inputs of the run before it return the values that run returned
ReplayRepeatsOutputs ==
    \A i \in 1..Len(env.log) :
        (i <= Len(env.prev) /\ \A j \in 1..i : Inputs(env.log[j]) = Inputs(env.prev[j]))
            => env.log[i].ret = env.prev[i].ret

----------------------------------------------------------------------------
(* Properties of a ride, checked under SpecSession *)

\* the mode and the hysteresis counter before the last update
ModeWas == call.modeBefore.currentMode
CounterWas == call.modeBefore.hysteresisCounter

\* a tick on which ModeRecognition.detect classified the histories
Detected == Ticked /\ call.detected # "NONE"

\* C5: from counter 0, the first and the second consecutive detection that
\* differs from the current mode leave the mode unchanged and count up, the
\* third changes the mode to the detected one and resets the counter to 0; a
\* detection equal to the current mode resets the counter to 0
HysteresisCommitsOnThird ==
    /\ modeRec.hysteresisCounter \in 0..2
    /\ Len(env.dets) >= modeRec.hysteresisCounter
    /\ \A i \in 1..Len(env.dets) :
        i > Len(env.dets) - modeRec.hysteresisCounter => env.dets[i] # modeRec.currentMode
    /\ Detected =>
        /\ call.detected = ModeWas =>
            modeRec = [currentMode |-> ModeWas, hysteresisCounter |-> 0]
        /\ (call.detected # ModeWas /\ CounterWas < 2) =>
            modeRec = [currentMode |-> ModeWas, hysteresisCounter |-> CounterWas + 1]
        /\ (call.detected # ModeWas /\ CounterWas = 2) =>
            modeRec = [currentMode |-> call.detected, hysteresisCounter |-> 0]

\* the third consecutive detection of one mode other than the current one has
\* just changed the mode
ThirdDetectionCommitted ==
    /\ Detected /\ CounterWas = 2
    /\ env.dets = <<call.detected, call.detected, call.detected>>
    /\ call.detected # ModeWas
    /\ modeRec.currentMode = call.detected

\* C6: the mode changes only when the three most recent detections are the
\* same mode and differ from the mode held before; a mix of RAMP and RECOVERY
\* detections while STEADY changes nothing
CommitNeedsThreeIdentical ==
    (Ticked /\ modeRec.currentMode # ModeWas) =>
        /\ Len(env.dets) = 3
        /\ env.dets[1] = env.dets[3] /\ env.dets[2] = env.dets[3]
        /\ env.dets[3] # ModeWas

\* the optimizer's power after its last iteration is on outputMin or outputMax
OptimizerAtBound ==
    Ticked /\ (call.optPower >= cfg.outputMax \/ call.optPower <= cfg.outputMin)

Pushed(b, before, v, cap) ==
    b = IF Len(before) < cap THEN Append(before, v) ELSE Append(Tail(before), v)

\* C9: after every update and reset the model-output history holds at most 4
\* entries, the heart-rate history at most 20, the power history at most 10 and
\* the Kalman variance window at most 5; a push into a full buffer evicts the
\* oldest entry
BuffersWithinCapacity ==
    /\ Len(history.modelOutput) <= 4
    /\ Len(history.hr) <= 20
    /\ Len(history.power) <= 10
    /\ Len(kalman.history) <= 5
    /\ Ticked =>
        /\ Pushed(history.modelOutput, call.modelBefore,
                  history.modelOutput[Len(history.modelOutput)], 4)
        /\ Pushed(history.hr, call.hrBefore, call.filteredHR, 20)
        /\ Pushed(history.power, call.powerBefore, call.currentPower, 10)
        /\ Pushed(kalman.history, call.windowBefore, call.rawHR, 5)

\* a tick that pushed into buffers that were all full
PushedIntoFullBuffers ==
    /\ Ticked
    /\ Len(call.modelBefore) = 4 /\ Len(call.hrBefore) = 20
    /\ Len(call.powerBefore) = 10 /\ Len(call.windowBefore) = 5
    /\ call.hrBefore[1] # call.hrBefore[2]

\* C10: on MPCv10 and MPCv10_1 the learned gain stays in [0.25, 0.8], tauRise
\* in [15, 60] and tauFall in [25, 120], in the adapter and in the observer, and
\* no tau the observer divides by is 0
LearnedParamsInRange ==
    /\ 25000 <= rls.theta /\ rls.theta <= 80000
    /\ 15000 <= rls.tauRise /\ rls.tauRise <= 60000
    /\ 25000 <= rls.tauFall /\ rls.tauFall <= 120000
    /\ 25000 <= obs.gain /\ obs.gain <= 80000
    /\ 15000 <= obs.tauRise /\ obs.tauRise <= 60000
    /\ 25000 <= obs.tauFall /\ obs.tauFall <= 120000
    /\ obs.tauRise # 0 /\ obs.tauFall # 0

\* an adaptation step on MPCv10_1 that ended with tauFall on its lower limit
\* after starting the tick above it
TauFallClamped ==
    /\ Ticked /\ call.adapted
    /\ cfg.tuned
    /\ rls.tauFall = 25000 /\ obs.tauFall = 25000
    /\ call.rlsBefore.tauFall > 25000

----------------------------------------------------------------------------
(* Properties of the supervisor, checked under SpecSupervisor *)

\* an autoTune call has just returned
Tuned == call.op = "autoTune"

\* the intent the rule with inclusive thresholds gives: MEDICAL from ratio 0.92,
\* TT from ratio 0.85 in a session of at most 60 minutes, ENDURANCE in a longer
\* session or below ratio 0.75 with duration above 45 minutes, else TRAINING
InclusiveIntent(targetHR, hrMax, sessionDuration, duration) ==
    LET isLongSession == sessionDuration > 3600
    IN  IF targetHR * 100 >= 92 * hrMax THEN "MEDICAL"
        ELSE IF targetHR * 100 >= 85 * hrMax /\ ~isLongSession THEN "TT"
        ELSE IF isLongSession \/ (targetHR * 100 < 75 * hrMax /\ duration > 2700)
             THEN "ENDURANCE"
        ELSE "TRAINING"

\* C11: the intent autoTune infers is MEDICAL exactly when targetHR / hrMax >= 0.92,
\* else TT exactly when the ratio is >= 0.85 and the session is at most 60 minutes
\* old, else ENDURANCE exactly when the session is older or the ratio is below
\* 0.75 with the duration argument above 45 minutes, else TRAINING
IntentThresholdsInclusive ==
    Tuned => sup.inferredIntent =
                 InclusiveIntent(call.targetHR, cfg.hrMax,
                                 now - call.before.sessionStartTime, call.duration)

----------------------------------------------------------------------------
(* Properties of the demand observer and the control loop, checked under
   SpecSession and SpecReplay *)

\* C12: once the controller is initialized, the observer's demand lies in
\* [params.hrMin, params.hrMax] = [65, configured hrMax], its hr in [60, 200] and
\* its dhdt in [-5, 5] after every update, whatever the heart rate fed
ObserverStateWithinLimits ==
    state.initialized =>
        /\ 65000 <= obs.demand /\ obs.demand <= cfg.hrMax
        /\ 60000 <= obs.hr /\ obs.hr <= 200000
        /\ -5000 <= obs.dhdt /\ obs.dhdt <= 5000

\* C13: at the end of every later tick the observer's demand is the demand its
\* update step estimated, advanced with the power the tick emits
ObserverDemandFollowsEmittedPower ==
    Ticked => obs.demand = AdvancedDemand(call.observed.demand, call.ret, rls.theta)

----------------------------------------------------------------------------
(* Properties of the cost evaluator, checked under SpecSupervisor *)

\* a calculateCost call has just returned
Costed == call.op = "calculateCost"

\* the mean of the predictions of the call, as an offset from the target
MeanOffset == Div(SumSeq(call.predictions), 8) - call.targetHR

\* the 99th percentile of the 8 predictions (the greatest), as an offset
P99Offset == MaxSeq(call.predictions) - call.targetHR

\* C14: with any config autoTune returns, the tracking cost is 0 for a mean
\* prediction of target + 0.2 and positive for a mean prediction of target + 1.0
TrackingZeroInsideUpperBand ==
    Costed => /\ MeanOffset = 200 => call.trackingCost = 0
              /\ MeanOffset = 1000 => call.trackingCost > 0

\* what calculateCost returns beyond its tracking, soft safety and comfort terms
HardOvershootTerm ==
    call.ret - MulDiv(call.trackingCost, call.config.alpha, 100)
             - MulDiv(call.safetyCost, call.config.beta, 100)
             - MulDiv(call.comfortCost, call.config.gamma, 100)

\* C15: the cost of a prediction set whose p99 is above target + 2.0 holds a
\* hard overshoot term on top of the soft p95 term, and the cost of a set whose
\* p99 is at most target + 1.8 holds none
HardPenaltyAboveP99 ==
    Costed => /\ P99Offset > 2000 => HardOvershootTerm > 0
              /\ P99Offset <= 1800 => HardOvershootTerm = 0

----------------------------------------------------------------------------
(* Property of drift detection, checked under SpecDrift *)

\* C16: fed at constant power a heart rate that rises linearly by more than
\* 2.5 bpm over several minutes, the controller has had a tick whose drift
\* result says isDrifting by the time the trace is fed whole
RisingTraceSetsIsDrifting ==
    env.calls = DriftTicks => \E i \in 1..Len(env.log) : env.log[i].isDrifting

----------------------------------------------------------------------------
(* Properties of PhysioController, checked under SpecPhysio *)

\* an update of the initialized PhysioController, at least 4 seconds after the
\* last one that passed the timing check
PhysioStepped == call.op = "physio" /\ ~call.first /\ call.dt >= 4

\* the returned power is above the power returned before, by at most
\* MAX_SLEW_RATE * dt, or the controller was at outputMax already
RaisedWithinSlew ==
    \/ call.before.lastOutputPower = call.before.outputMax
    \/ /\ call.ret > call.before.lastOutputPower
       /\ call.ret - call.before.lastOutputPower <= 1000 * call.dt

----------------------------------------------------------------------------
(* Properties of autoTune, checked under SpecSupervisor *)

\* the preset of the intent the last autoTune inferred
Preset == GetConfigByIntent(sup.inferredIntent)

\* C18: in STEADY mode the dead-band autoTune returns is no wider than the
\* preset's when |error| < 1.5 and variance < 1.5, and no narrower than the
\* preset's when |error| > 5
SteadyDeadbandNarrowsWhenCalm ==
    Tuned /\ call.mode = "STEADY" =>
        /\ Abs(call.error) < 1500 /\ call.variance < 15000 =>
              call.ret.dbLower <= Preset.dbLower /\ call.ret.dbUpper <= Preset.dbUpper
        /\ Abs(call.error) > 5000 =>
              call.ret.dbLower >= Preset.dbLower /\ call.ret.dbUpper >= Preset.dbUpper

----------------------------------------------------------------------------
(* Property of the integral trim in the control loop, checked under SpecSession *)

\* the error of the last update: targetHR - filteredHR
TickError == call.targetHR - call.filteredHR

\* the last update reached the accumulation step of SmartIntegral.update: the
\* mode is STEADY, the optimizer's power is off the limits and |error| <= 2.5
Accumulated ==
    /\ Ticked /\ modeRec.currentMode = "STEADY" /\ ~call.atLimit
    /\ Abs(TickError) <= 2500

\* the accumulator the step starts from: decayed to 0.3 on a sign change of the error
AccumulatorDecayed ==
    IF Sign(TickError) * Sign(call.lastErrorBefore) < 0
    THEN Div(call.accBefore * 3, 10) ELSE call.accBefore

\* C19: the accumulation step adds error * weight * 2 with weight 1.5 on the
\* ticks where the filtered heart rate is above the target and weight 1.0 on
\* the ticks where it is at or below the target
OvershootWeighsMore ==
    Accumulated =>
        integral.accumulated =
            Clamp(-150000, 150000,
                  AccumulatorDecayed
                    + (IF call.filteredHR > call.targetHR THEN 3 ELSE 2) * TickError)

\* a counter above its threshold scales its penalty from the preset (by
\* num / 10) and is reset; a counter at or below it leaves both as they are
Adapted(before, after, penalty, preset, threshold, num) ==
    IF before > threshold
    THEN penalty = Div(preset * num, 10) /\ after = 0
    ELSE penalty = preset /\ after = before

\* C20: at autoTune, an overshoot, undershoot or oscillation counter above 5
\* scales its penalty from the intent preset (overshoot x1.3, undershoot x0.8,
\* momentum x1.4) and is reset to 0; a counter of at most 5 leaves its penalty
\* at the preset and itself unchanged
CountersAboveFiveAdapt ==
    Tuned =>
        /\ Adapted(call.before.recentOvershoots, sup.recentOvershoots,
                   call.ret.overshootPenalty, Preset.overshootPenalty, 5, 13)
        /\ Adapted(call.before.recentUndershoots, sup.recentUndershoots,
                   call.ret.undershootPenalty, Preset.undershootPenalty, 5, 8)
        /\ Adapted(call.before.oscillationCount, sup.oscillationCount,
                   call.ret.momentumPenalty, Preset.momentumPenalty, 5, 14)

\* C20, amended: the same with the code's thresholds, 5 for the overshoot and
\* undershoot counters and 10 for the oscillation counter
CountersAboveThresholdAdapt ==
    Tuned =>
        /\ Adapted(call.before.recentOvershoots, sup.recentOvershoots,
                   call.ret.overshootPenalty, Preset.overshootPenalty, 5, 13)
        /\ Adapted(call.before.recentUndershoots, sup.recentUndershoots,
                   call.ret.undershootPenalty, Preset.undershootPenalty, 5, 8)
        /\ Adapted(call.before.oscillationCount, sup.oscillationCount,
                   call.ret.momentumPenalty, Preset.momentumPenalty, 10, 14)

\* autoTune has run with all three counters above their thresholds
AllCountersAdapted ==
    /\ Tuned
    /\ call.before.recentOvershoots > 5 /\ call.before.recentUndershoots > 5
    /\ call.before.oscillationCount > 10
    /\ sup.recentOvershoots = 0 /\ sup.oscillationCount = 0

----------------------------------------------------------------------------
(* Properties of SmartIntegral, checked under SpecIntegral *)

\* C21: after any sequence of update and reset calls the accumulator is within
\* +-150 (maxAccum / Ki), every returned adjustment is within +-15 W
\* (maxAccum), and the returned adjustment is 0 whenever the mode is not
\* STEADY or the call was made at a power limit
IntegralWithinLimits ==
    /\ Abs(integral.accumulated) <= 150000
    /\ call.op = "integral" =>
          /\ Abs(call.ret) <= 15000
          /\ (call.mode # "STEADY" \/ call.atPowerLimit) => call.ret = 0

\* an update whose sum fell below the lower limit and was cut to it
IntegralCutAtLowerLimit ==
    /\ call.op = "integral"
    /\ call.mode = "STEADY" /\ ~call.atPowerLimit /\ Abs(call.error) <= 2500
    /\ call.before.accumulated + 2 * call.error < -150000
    /\ integral.accumulated = -150000
    /\ call.ret = -15000

----------------------------------------------------------------------------
(* Properties of the drift detection inside update, checked under SpecSession *)

\* the power of this update is 5 W or more away from the power detectDrift saw last
PowerMoved == Abs(call.currentPower - call.supBefore.lastPower) >= 5000

\* C22: detectDrift leaves the drift estimate and the drift onset time as they
\* were on any call whose power differs from the previously seen power by 5 W
\* or more (only the remembered last power changes); when the change is below
\* 5 W the estimate becomes 0.95 * drift + 0.05 * (observed - predicted)
DriftFrozenWhilePowerMoves ==
    Ticked =>
        /\ sup.lastPower = call.currentPower
        /\ IF PowerMoved
           THEN /\ sup.driftEstimate = call.supBefore.driftEstimate
                /\ sup.driftOnsetTime = call.supBefore.driftOnsetTime
           ELSE sup.driftEstimate =
                    Div(95 * call.supBefore.driftEstimate
                        + 5 * (call.filteredHR - call.observed.hr), 100)

\* an update at a moved power that kept a non-zero estimate which the
\* observation of that update would have changed
DriftKeptAtMovedPower ==
    /\ Ticked
    /\ PowerMoved
    /\ call.supBefore.driftEstimate # 0
    /\ Div(95 * call.supBefore.driftEstimate
           + 5 * (call.filteredHR - call.observed.hr), 100) # call.supBefore.driftEstimate
    /\ sup.driftEstimate = call.supBefore.driftEstimate

----------------------------------------------------------------------------
(* Properties of the parameter adaptation inside update, checked under Spec *)

\* the learned parameters the DemandObserver holds
ObserverParams == [gain |-> obs.gain, tauRise |-> obs.tauRise, tauFall |-> obs.tauFall]

\* an update with |targetHR - filteredHR| >= 25 or currentPower < 10 W
AdaptationSkipped ==
    /\ Ticked
    /\ Abs(call.targetHR - call.filteredHR) >= 25000 \/ call.currentPower < 10000

\* C23: on a tick where |targetHR - filteredHR| >= 25 or currentPower < 10 W
\* the adaptation is skipped: the adapter's gain, tauRise and tauFall and the
\* copies the DemandObserver holds are what they were before the tick
SkippedAdaptationKeepsParams ==
    AdaptationSkipped => rls = call.rlsBefore /\ ObserverParams = call.obsBefore

\* a tick skipped for its power alone: below 10 W with an error below 25
SkippedForPowerAlone ==
    /\ AdaptationSkipped
    /\ call.currentPower < 10000
    /\ Abs(call.targetHR - call.filteredHR) < 25000
    /\ rls = call.rlsBefore

----------------------------------------------------------------------------
(* Properties of the PhysioController's overshoot zone, checked under SpecPhysio *)

\* C24: on the first acting update in which the filtered HR is above the
\* overshoot threshold (the target) after the safe or recovery zone, where the
\* overshoot timer is 0, the controller holds the previous power (WAIT); the
\* drop starts on a later update
FirstOvershootUpdateHolds ==
    (PhysioStepped /\ call.filteredHR > call.targetHR /\ call.before.overshootTimer = 0)
        => call.ret = call.before.lastOutputPower

----------------------------------------------------------------------------
(* Properties of MPCv10_1, checked under SpecSession (script "fall") *)

\* a base value after the mode scaling of autoTune, for the mode of this tick
ModeScaled(base, ramp, recovery) ==
    IF modeRec.currentMode = "RAMP" THEN Div(base * ramp, 10)
    ELSE IF modeRec.currentMode = "RECOVERY" THEN Div(base * recovery, 10)
    ELSE base

\* C25: while the inferred intent is TRAINING, the horizon and learning rate
\* the optimizer of an MPCv10_1 uses in update are the values set at
\* construction, 45 s and 0.65, scaled only by the mode
TunedBaseValuesUsed ==
    (Ticked /\ cfg.tuned /\ sup.inferredIntent = "TRAINING") =>
        /\ sup.config.horizon = ModeScaled(450, 12, 13)
        /\ sup.config.lr = ModeScaled(650, 14, 6)

----------------------------------------------------------------------------
(* Properties of the integral while the supervisor disables it, checked under
   SpecSession (script "swing") *)

\* C26: on a tick whose supervisor config has enableIntegral false (RAMP,
\* RECOVERY, or STEADY with a heart-rate variance of 2.0 or more) the
\* accumulator only decays: its magnitude after the tick is no larger than before
DisabledIntegralOnlyDecays ==
    (Ticked /\ ~sup.config.enableIntegral)
        => Abs(integral.accumulated) <= Abs(call.accBefore)

----------------------------------------------------------------------------
(* Properties of the observer's copy of the learned parameters, checked under
   SpecSession *)

\* C27: at every tick boundary, after construction, after any update and
\* after reset(), the gain, tauRise and tauFall the DemandObserver predicts
\* with equal the adapter's rls.theta, rls.tauRise and rls.tauFall
ObserverParamsMatchAdapter ==
    /\ obs.gain = rls.theta
    /\ obs.tauRise = rls.tauRise
    /\ obs.tauFall = rls.tauFall

----------------------------------------------------------------------------
(* Properties of the delayed model output the adaptation reads, checked under
   SpecSession *)

\* the age in ticks of history.modelOutput[0] when updateAdaptation reads it:
\* every tick appends one prediction and removes at most the oldest, so after
\* this tick's push the first of n entries was pushed n - 1 ticks ago
DelayedModelAge == Len(history.modelOutput) - 1

\* C28: whenever the adaptation runs, the model output it compares with the
\* filtered HR is not the prediction pushed during the same tick, and once the
\* buffer is full it was recorded exactly delay = 4 ticks before
AdaptationComparesDelayedModel ==
    (Ticked /\ call.adapted) =>
        /\ DelayedModelAge > 0
        /\ Len(call.modelBefore) = 4 => DelayedModelAge = 4

----------------------------------------------------------------------------
(* Properties of the ride controls of app.js, checked under SpecApp *)

\* C29: selecting a simulation speed while a ride is running leaves the ride
\* running with the control and timer loops armed at the new rate, and hands
\* no stop setpoint to the connection
SpeedChangeKeepsRiding ==
    (call.op = "setSpeed" /\ call.before.isRunning) =>
        /\ app.isRunning
        /\ app.controlInterval = 2000 \div call.speed
        /\ app.timerInterval = 1000 \div call.speed
        /\ app.setpoint = call.before.setpoint

----------------------------------------------------------------------------
(* Properties of Connectable, checked under SpecBle *)

\* C30: once a user-initiated disconnect(type) has completed, the reconnect
\* loop makes no further device.gatt.connect() attempt for that device, also
\* when disconnect was called while the loop was in progress
NoReconnectAfterUserDisconnect ==
    ~(call.op = "gattConnect" /\ call.auto /\ call.afterDisconnect)

====
